---- MODULE Spec2Model ----
(***************************************************************************)
(* Global Workspace arbitration engine (global_workspace.py) and the       *)
(* recursive meta-cognition engine (meta_cognition.py).                    *)
(*                                                                         *)
(* Python floats are modelled as exact rationals <<n, d>> in lowest terms  *)
(* (d > 0); wall-clock time is an integer number of seconds.  Python       *)
(* objects live in heaps (info, bcast) and containers hold references      *)
(* (indices), so that aliasing and dataclass equality are both visible.    *)
(***************************************************************************)
EXTENDS Integers, Sequences, FiniteSets, TLC

(* ------------------------------ bounds -------------------------------- *)
MaxUnits == 2
MaxClock == 1

(* --------------------------- exact rationals -------------------------- *)
RECURSIVE Gcd(_, _)
Gcd(a, b) == IF b = 0 THEN a ELSE Gcd(b, a % b)

Abs(x) == IF x < 0 THEN -x ELSE x

Rat(n, d) ==
    LET g == Gcd(Abs(n), d) IN IF n = 0 THEN <<0, 1>> ELSE <<n \div g, d \div g>>

RAdd(x, y) == Rat(x[1] * y[2] + y[1] * x[2], x[2] * y[2])
RMul(x, y) == Rat(x[1] * y[1], x[2] * y[2])
RSub(x, y) == RAdd(x, <<-y[1], y[2]>>)
RLt(x, y) == x[1] * y[2] < y[1] * x[2]
RLe(x, y) == x[1] * y[2] <= y[1] * x[2]
RGe(x, y) == RLe(y, x)
RGt(x, y) == RLt(y, x)

Zero == <<0, 1>>
One == <<1, 1>>

(* ------------------------------ inputs -------------------------------- *)
\* configurations GlobalWorkspace.__init__ is given
\* (capacity, decay_rate, competition_threshold)
Configs == {<<1, Zero, <<1, 10>>>>, <<1, <<1, 2>>, <<2, 5>>>>,
            <<2, Zero, <<2, 5>>>>, <<2, <<1, 2>>, <<1, 10>>>>}
\* (content, salience, relevance) of the units submitted; a content is a sequence
\* of character codes.  Priorities at age 0 / 1: 9/10 and 4/5, 2/5 and 3/10
Inputs == {<<<<1>>, One, <<3, 4>>>>, <<<<2>>, <<1, 2>>, Zero>>}
\* processor objects and the name each was constructed with
ProcObjs == {1, 2, 3, 4, 5}
ProcName(o) ==
    CASE o = 2 -> "language" [] o = 4 -> "memory" [] o = 5 -> "metacognition"
      [] OTHER -> "emotion"
Names == {ProcName(o) : o \in ProcObjs}

\* what an operation returned: None, competition_cycle's list of broadcasts, or
\* process_cycle's summary
NoSummary ==
    [submissions |-> 0, broadcasts |-> <<>>, workspace_contents |-> <<>>,
     competition_summary |-> [total_competitors |-> 0, winners |-> 0,
                              workspace_occupancy |-> 0, workspace_capacity |-> 0]]
None == [kind |-> "None", broadcasts |-> <<>>, summary |-> NoSummary]
RetBroadcasts(bids) == [kind |-> "broadcasts", broadcasts |-> bids, summary |-> NoSummary]
RetSummary(r) == [kind |-> "summary", broadcasts |-> <<>>, summary |-> r]

VARIABLES
    clock,               \* time.time()
    capacity, decay_rate, competition_threshold,
    info,                \* heap of Information objects
    bcast,               \* heap of BroadcastMessage objects
    workspace_contents,  \* references into info
    competition_pool,    \* references into info
    processors,          \* dict name -> processor, in insertion order
    output_queue,        \* per processor object: references into info
    input_buffer,        \* per processor object: references into bcast
    broadcast_history,   \* references into bcast
    submitted,           \* the units in the order submit_information was called
    ret,                 \* what the last operation returned
    max_depth,           \* RecursiveMetaCognition.max_depth
    working_memory,      \* its WorkingMemory: capacity, buffer, attention_weights
    consciousness_stream,
    stack,               \* the frames of process_with_true_recursion, innermost last
    nodes,               \* heap of the dicts process_with_true_recursion returns
    llm_calls,           \* the calls of llm_generator made by the running call
    entries,             \* how often the running call entered the function
    outcome,             \* state of the top-level call, and the last value returned
    wm_log,              \* history: the (thought, attention) pairs WorkingMemory.add
                         \* was given since the last WorkingMemory.clear
    turn,                \* ConsciousnessSimulator: where process_input stands
    running,             \* a competition_cycle call of another thread in progress
    neurochemistry,      \* the NeurochemicalSystem: levels, decay_rate
    neuro_calls          \* how often its caller has called it directly

gwvars == <<clock, capacity, decay_rate, competition_threshold, info, bcast,
            workspace_contents, competition_pool, processors, output_queue,
            input_buffer, broadcast_history, submitted, ret>>

metavars == <<max_depth, working_memory, consciousness_stream, stack, nodes, llm_calls,
              entries, outcome, wm_log>>
turnvars == <<turn>>
racevars == <<running>>
neurovars == <<neurochemistry, neuro_calls>>

(* ---------------------------- sequences -------------------------------- *)
Range(s) == {s[i] : i \in DOMAIN s}

Min(a, b) == IF a < b THEN a ELSE b
Max(a, b) == IF a > b THEN a ELSE b

\* Python's seq[:n], n possibly negative
SliceTo(s, n) ==
    IF n >= 0 THEN SubSeq(s, 1, Min(n, Len(s)))
    ELSE SubSeq(s, 1, Max(Len(s) + n, 0))

RECURSIVE SelectIdx(_, _, _)
\* the elements s[i] with Keep(i), in order
SelectIdx(s, Keep(_), i) ==
    IF i > Len(s) THEN <<>>
    ELSE (IF Keep(i) THEN <<s[i]>> ELSE <<>>) \o SelectIdx(s, Keep, i + 1)

(* -------------------------- Information -------------------------------- *)
\* Information.get_priority at time t
PriorityRecencyRising(age) == Rat(age, 1 + age)
PriorityRecency(age) == Rat(1, 1 + age)

GetPriority(u, t) ==
    RAdd(RAdd(RMul(u.salience, <<2, 5>>), RMul(u.relevance, <<2, 5>>)),
         RMul(PriorityRecency(t - u.timestamp), <<1, 5>>))

NewInformation(src, inp, t) ==
    [source |-> src, content |-> inp[1], salience |-> inp[2], relevance |-> inp[3],
     timestamp |-> t, activation_level |-> Zero]

\* the dataclass-generated __eq__: field by field
InfoEq(u, v) == u = v

\* what "x in list" does: identity first, then __eq__
InList(h, i, lst) == \E j \in Range(lst) : j = i \/ InfoEq(h[i], h[j])

(* ------------------------ SpecializedProcessor ------------------------- *)
\* dict.values(): the registered processor objects, in dict order
ValuesOfEvery(procs) == <<1, 2, 3, 4, 5>>
Values(procs) == [i \in DOMAIN procs |-> procs[i].obj]

\* SpecializedProcessor.submit_to_workspace
SubmitToWorkspace(o, inp) ==
    /\ info' = Append(info, NewInformation(ProcName(o), inp, clock))
    /\ output_queue' = [output_queue EXCEPT ![o] = Append(@, Len(info) + 1)]
    /\ ret' = None
    /\ UNCHANGED <<clock, capacity, decay_rate, competition_threshold, bcast,
                   workspace_contents, competition_pool, processors, input_buffer,
                   broadcast_history, submitted>>
    /\ UNCHANGED <<metavars, turnvars, racevars, neurovars>>

(* ------------------------ ConsciousnessSimulator ----------------------- *)
\* no turn running: pc is the position in process_input; gen, risk: what the
\* generator and the ethical check of the response will do in the running turn;
\* cycles: the process_cycle calls of the running (or last) turn; last: the last
\* command completed
NoTurn == [pc |-> "idle", response |-> <<>>, gen |-> <<>>, risk |-> FALSE,
           cycles |-> 0, count |-> 0, last |-> "none"]
\* no competition_cycle in progress: pc is the position in competition_cycle,
\* winners its local list, read the length of the pool list the comprehension of
\* line 144 iterated, filtered the list it built
NoCycle == [pc |-> "none", winners |-> <<>>, read |-> 0, filtered |-> <<>>]

(* -------------------------- NeurochemicalSystem ------------------------ *)
Chemicals == {"dopamine", "serotonin", "norepinephrine", "oxytocin", "cortisol"}

\* ChemicalLevels(): the defaults of the dataclass, also the baseline
ChemicalLevels ==
    [c \in Chemicals |-> IF c = "cortisol" THEN <<3, 10>> ELSE <<1, 2>>]

\* np.clip(x, 0.0, 1.0)
Clip(x) == IF RLt(x, Zero) THEN Zero ELSE IF RGt(x, One) THEN One ELSE x

\* ChemicalLevels.normalize
NormalizeNot(l) == l
Normalize(l) == [c \in Chemicals |-> Clip(l[c])]

\* lines 57-71: the changes of each emotion, in hundredths
EmotionMappings ==
    [joy |-> [dopamine |-> 30, serotonin |-> 20, oxytocin |-> 10],
     happiness |-> [dopamine |-> 30, serotonin |-> 20, oxytocin |-> 10],
     sadness |-> [serotonin |-> -30, dopamine |-> -20, cortisol |-> 20],
     anger |-> [norepinephrine |-> 40, cortisol |-> 30, serotonin |-> -20,
                dopamine |-> -15],
     fear |-> [cortisol |-> 40, norepinephrine |-> 30, serotonin |-> -10],
     anxiety |-> [cortisol |-> 35, norepinephrine |-> 20, serotonin |-> -15],
     surprise |-> [norepinephrine |-> 20, dopamine |-> 15],
     love |-> [oxytocin |-> 40, dopamine |-> 20, serotonin |-> 10],
     affection |-> [oxytocin |-> 30, serotonin |-> 10],
     trust |-> [oxytocin |-> 25, serotonin |-> 10],
     excitement |-> [dopamine |-> 30, norepinephrine |-> 20],
     disgust |-> [serotonin |-> -20, cortisol |-> 15],
     neutral |-> [c \in {} |-> 0]]

\* line 73: emotion_mappings.get(emotion.lower(), {}) (labels are in lower case)
Changes(emotion) ==
    IF emotion \in DOMAIN EmotionMappings THEN EmotionMappings[emotion]
    ELSE [c \in {} |-> 0]

\* NeurochemicalSystem.update_from_emotion on the levels
UpdateFromEmotion(l, emotion, intensity) ==
    LET changes == Changes(emotion)
    IN Normalize([c \in Chemicals |->
                     IF c \in DOMAIN changes
                     THEN RAdd(l[c], RMul(Rat(changes[c], 100), intensity))
                     ELSE l[c]])

\* NeurochemicalSystem.homeostatic_decay on the levels
HomeostaticDecay(l, rate) ==
    Normalize([c \in Chemicals |->
                  RAdd(l[c], RMul(RSub(ChemicalLevels[c], l[c]), rate))])

\* NeurochemicalSystem.__init__, and the decay_rate its owner sets afterwards
DefaultNeuroDecay == <<1, 20>>
NewNeurochemicalSystem(rate) == [levels |-> ChemicalLevels, decay_rate |-> rate]
NeuroInit(rate) == neurochemistry = NewNeurochemicalSystem(rate) /\ neuro_calls = 0

\* a direct call of update_from_emotion
UpdateFromEmotionCall(emotion, intensity) ==
    /\ neurochemistry' =
          [neurochemistry EXCEPT !.levels = UpdateFromEmotion(@, emotion, intensity)]
    /\ neuro_calls' = neuro_calls + 1
    /\ UNCHANGED <<gwvars, metavars, turnvars, racevars>>

\* a direct call of homeostatic_decay
HomeostaticDecayCall ==
    /\ neurochemistry' =
          [neurochemistry EXCEPT
              !.levels = HomeostaticDecay(@, neurochemistry.decay_rate)]
    /\ neuro_calls' = neuro_calls + 1
    /\ UNCHANGED <<gwvars, metavars, turnvars, racevars>>

\* the state of a simulator that has just been constructed
TurnInit == turn = NoTurn /\ running = NoCycle /\ NeuroInit(DefaultNeuroDecay)

(* --------------------------- GlobalWorkspace --------------------------- *)
\* GlobalWorkspace.register_processor
RegisteredAt(procs, name) == {i \in DOMAIN procs : procs[i].name = name}

RegisterProcessorAppend(procs, o) == Append(procs, [name |-> ProcName(o), obj |-> o])
RegisterProcessorDict(procs, o) ==
    LET at == RegisteredAt(procs, ProcName(o)) IN
    IF at = {} THEN Append(procs, [name |-> ProcName(o), obj |-> o])
    ELSE [i \in DOMAIN procs |-> IF i \in at THEN [name |-> ProcName(o), obj |-> o]
                                              ELSE procs[i]]

RegisterProcessor(o) ==
    /\ processors' = RegisterProcessorDict(processors, o)
    /\ processors' # processors
    /\ ret' = None
    /\ UNCHANGED <<clock, capacity, decay_rate, competition_threshold, info, bcast,
                   workspace_contents, competition_pool, output_queue, input_buffer,
                   broadcast_history, submitted>>
    /\ UNCHANGED <<metavars, turnvars, racevars, neurovars>>

\* GlobalWorkspace.submit_information, on the heap: (heap, pool) after submitting ids
RECURSIVE SubmitAll(_, _, _, _)
SubmitAll(h, pool, ids, t) ==
    IF ids = <<>> THEN [h |-> h, pool |-> pool]
    ELSE LET i == Head(ids) IN
         SubmitAll([h EXCEPT ![i].activation_level = GetPriority(h[i], t)],
                   Append(pool, i), Tail(ids), t)

\* an outside caller builds an Information and submits it
SubmitInformation(src, inp) ==
    /\ LET h0 == Append(info, NewInformation(src, inp, clock))
           r == SubmitAll(h0, competition_pool, <<Len(h0)>>, clock)
       IN /\ info' = r.h
          /\ competition_pool' = r.pool
          /\ submitted' = Append(submitted, Len(h0))
    /\ ret' = None
    /\ UNCHANGED <<clock, capacity, decay_rate, competition_threshold, bcast,
                   workspace_contents, processors, output_queue, input_buffer,
                   broadcast_history>>
    /\ UNCHANGED <<metavars, turnvars, racevars, neurovars>>

\* the wall clock advances (up to the bound max)
Tick(max) ==
    /\ clock < max
    /\ clock' = clock + 1
    /\ UNCHANGED <<capacity, decay_rate, competition_threshold, info, bcast,
                   workspace_contents, competition_pool, processors, output_queue,
                   input_buffer, broadcast_history, submitted, ret>>
    /\ UNCHANGED <<metavars, turnvars, racevars, neurovars>>

\* GlobalWorkspace.__init__ with configuration cfg, then the processors procs
\* registered in that order
GWInit(cfg, procs) ==
    /\ clock = 0
    /\ capacity = cfg[1]
    /\ decay_rate = cfg[2]
    /\ competition_threshold = cfg[3]
    /\ info = <<>>
    /\ bcast = <<>>
    /\ workspace_contents = <<>>
    /\ competition_pool = <<>>
    /\ processors = [k \in DOMAIN procs |-> [name |-> ProcName(procs[k]), obj |-> procs[k]]]
    /\ output_queue = [o \in ProcObjs |-> <<>>]
    /\ input_buffer = [o \in ProcObjs |-> <<>>]
    /\ broadcast_history = <<>>
    /\ submitted = <<>>
    /\ ret = None

\* line 132: list.sort(key=activation_level, reverse=True), a stable sort
RECURSIVE InsertDescUnstable(_, _, _)
InsertDescUnstable(sorted, x, h) ==
    IF sorted = <<>> THEN <<x>>
    ELSE IF RLe(h[Head(sorted)].activation_level, h[x].activation_level)
         THEN <<x>> \o sorted
         ELSE <<Head(sorted)>> \o InsertDescUnstable(Tail(sorted), x, h)

RECURSIVE InsertDesc(_, _, _)
InsertDesc(sorted, x, h) ==
    IF sorted = <<>> THEN <<x>>
    ELSE IF RLt(h[Head(sorted)].activation_level, h[x].activation_level)
         THEN <<x>> \o sorted
         ELSE <<Head(sorted)>> \o InsertDesc(Tail(sorted), x, h)

RECURSIVE SortDescFrom(_, _, _)
SortDescFrom(done, rest, h) ==
    IF rest = <<>> THEN done
    ELSE SortDescFrom(InsertDesc(done, Head(rest), h), Tail(rest), h)

SortDescNot(s, h) == s
SortDesc(s, h) == SortDescFrom(<<>>, s, h)

\* lines 128-129: every pooled unit's activation recomputed; the clock may advance
\* once while the loop runs (the first tk units see t, the others t + 1)
Recompute(h, pool, t, tk) ==
    [i \in DOMAIN h |->
        IF \E p \in DOMAIN pool : pool[p] = i
        THEN LET p == CHOOSE q \in DOMAIN pool :
                        /\ pool[q] = i
                        /\ \A q2 \in DOMAIN pool : pool[q2] = i => q2 <= q
             IN [h[i] EXCEPT !.activation_level =
                                 GetPriority(h[i], IF p <= tk THEN t ELSE t + 1)]
        ELSE h[i]]

\* line 136
AvailableSlotsOfCapacity(cap, ws) == cap
AvailableSlots(cap, ws) == cap - Len(ws)

\* line 139
AdmissibleAlways(act, thr) == TRUE
Admissible(act, thr) == RGe(act, thr)

\* lines 138-141: the winners, in the order they are appended
Winners(h, sorted, slots, thr) ==
    LET cand == SliceTo(sorted, slots) IN
    SelectIdx(cand, LAMBDA k : Admissible(h[cand[k]].activation_level, thr), 1)

\* line 144
RemoveWinnersNot(h, pool, winners) == pool
RemoveWinners(h, pool, winners) ==
    SelectIdx(pool, LAMBDA k : ~InList(h, pool[k], winners), 1)

\* lines 149-152 and 57-60: the BroadcastMessage of one winner once every registered
\* processor has received it
NewBroadcast(i, t, procs) ==
    [information |-> i, broadcast_time |-> t,
     reached_modules |-> [k \in DOMAIN procs |-> ProcName(Values(procs)[k])]]

\* lines 155-156: the mailbox of processor object o after the broadcasts bids
DeliverToFirst(buf, procs, o, bids) ==
    IF procs # <<>> /\ o = Values(procs)[1] THEN buf \o bids ELSE buf
Deliver(buf, procs, o, bids) ==
    IF o \in Range(Values(procs)) THEN buf \o bids ELSE buf

\* GlobalWorkspace.competition_cycle on a state record
\* S = [t, h, b, ws, pool, inbuf, hist]
\* line 140: each winner is appended to the active set
AdmitInFront(ws, winners) == winners \o ws
Admit(ws, winners) == ws \o winners

CompetitionCycleFn(S, cap, thr, procs, tk) ==
    IF S.pool = <<>> THEN S @@ [ret |-> <<>>]
    ELSE
    LET t1 == IF tk < Len(S.pool) THEN S.t + 1 ELSE S.t
        h1 == Recompute(S.h, S.pool, S.t, tk)
        sorted == SortDesc(S.pool, h1)
        winners == Winners(h1, sorted, AvailableSlots(cap, S.ws), thr)
        bids == [k \in DOMAIN winners |-> Len(S.b) + k]
    IN [t |-> t1,
        h |-> h1,
        b |-> S.b \o [k \in DOMAIN winners |-> NewBroadcast(winners[k], t1, procs)],
        ws |-> Admit(S.ws, winners),
        pool |-> RemoveWinners(h1, sorted, winners),
        inbuf |-> [o \in ProcObjs |-> Deliver(S.inbuf[o], procs, o, bids)],
        hist |-> S.hist \o bids,
        ret |-> bids]

\* line 176: the fixed floor
DecayFloor == <<1, 5>>

\* line 170
DecayedNot(act, rate) == act
Decayed(act, rate) == RMul(act, RSub(One, rate))

\* line 176
SurvivesAtFloor(act) == RGe(act, DecayFloor)
SurvivesAboveOldFloor(act) == RGt(act, <<1, 10>>)
Survives(act) == RGt(act, DecayFloor)

\* GlobalWorkspace.decay_workspace on a state record
DecayWorkspaceForgetting(S, rate) ==
    LET h1 == [i \in DOMAIN S.h |->
                  IF i \in Range(S.ws)
                  THEN [S.h[i] EXCEPT !.activation_level = Decayed(@, rate)]
                  ELSE S.h[i]]
    IN [S EXCEPT !.h = h1,
                 !.ws = SelectIdx(S.ws, LAMBDA k : Survives(h1[S.ws[k]].activation_level), 1),
                 !.hist = IF Len(@) > 0 /\ Len(S.ws) > 0 THEN Tail(@) ELSE @]
DecayWorkspaceFn(S, rate) ==
    LET h1 == [i \in DOMAIN S.h |->
                  IF i \in Range(S.ws)
                  THEN [S.h[i] EXCEPT !.activation_level = Decayed(@, rate)]
                  ELSE S.h[i]]
    IN [S EXCEPT !.h = h1,
                 !.ws = SelectIdx(S.ws, LAMBDA k : Survives(h1[S.ws[k]].activation_level), 1)]

Here == [t |-> clock, h |-> info, b |-> bcast, ws |-> workspace_contents,
         pool |-> competition_pool, inbuf |-> input_buffer, hist |-> broadcast_history]

Install(S) ==
    /\ clock' = S.t
    /\ info' = S.h
    /\ bcast' = S.b
    /\ workspace_contents' = S.ws
    /\ competition_pool' = S.pool
    /\ input_buffer' = S.inbuf
    /\ broadcast_history' = S.hist

\* the clock can advance by one during the recomputation loop, after tk units
TickPoints(pool, max) == {k \in 0..Len(pool) : k = Len(pool) \/ clock < max}

CompetitionCycle(tk) ==
    \E S \in {CompetitionCycleFn(Here, capacity, competition_threshold, processors, tk)} :
        /\ Install(S)
        /\ ret' = RetBroadcasts(S.ret)
        /\ UNCHANGED <<capacity, decay_rate, competition_threshold, processors,
                       output_queue, submitted>>
        /\ UNCHANGED <<metavars, turnvars, racevars, neurovars>>

DecayWorkspace ==
    /\ \E S \in {DecayWorkspaceFn(Here, decay_rate)} : Install(S)
    /\ ret' = None
    /\ UNCHANGED <<capacity, decay_rate, competition_threshold, processors, output_queue,
                   submitted>>
    /\ UNCHANGED <<metavars, turnvars, racevars, neurovars>>

\* lines 202-206: the units collected, processor by processor in dict order
RECURSIVE Collected(_, _, _)
Collected(procs, outq, k) ==
    IF k > Len(Values(procs)) THEN <<>>
    ELSE outq[Values(procs)[k]] \o Collected(procs, outq, k + 1)

\* line 226
ContentCut == 100
Truncate(c, n) == SubSeq(c, 1, Min(n, Len(c)))

\* lines 210-217: the broadcasts as the summary reports them
BroadcastSummary(S) ==
    [k \in DOMAIN S.ret |->
        LET u == S.h[S.b[S.ret[k]].information] IN
        [source |-> u.source, content |-> u.content, priority |-> u.activation_level]]

\* lines 223-231
ContentsSummary(S) ==
    [k \in DOMAIN S.ws |->
        LET u == S.h[S.ws[k]] IN
        [source |-> u.source, content |-> Truncate(u.content, ContentCut),
         activation |-> u.activation_level, age |-> S.t - u.timestamp]]

\* line 66: SpecializedProcessor.process clears the queue it has copied
DrainedNot(q) == q
Drained(q) == <<>>

\* line 220: decay_workspace is called on what competition_cycle left, the units
\* it has just admitted included
DecayStepSparingNew(S, rate) ==
    LET new == [k \in DOMAIN S.ret |-> S.b[S.ret[k]].information]
        old == SelectIdx(S.ws, LAMBDA k : S.ws[k] \notin Range(new), 1)
        D == DecayWorkspaceFn([S EXCEPT !.ws = old], rate)
    IN [D EXCEPT !.ws = @ \o new]
DecayStep(S, rate) == DecayWorkspaceFn(S, rate)

\* GlobalWorkspace.process_cycle
ProcessCycleStep(max) ==
    \E got \in {Collected(processors, output_queue, 1)} :
    \E sub \in {SubmitAll(info, competition_pool, got, clock)} :
    \E tk \in TickPoints(sub.pool, max) :
    \E S1 \in {CompetitionCycleFn([Here EXCEPT !.h = sub.h, !.pool = sub.pool],
                                  capacity, competition_threshold, processors, tk)} :
    \E S2 \in {DecayStep(S1, decay_rate)} :
        /\ Install(S2)
        /\ output_queue' = [o \in ProcObjs |->
                               IF o \in Range(Values(processors))
                               THEN Drained(output_queue[o])
                               ELSE output_queue[o]]
        /\ submitted' = submitted \o got
        /\ ret' = RetSummary([submissions |-> Len(got),
                   broadcasts |-> BroadcastSummary(S1),
                   workspace_contents |-> ContentsSummary(S2),
                   competition_summary |->
                       [total_competitors |-> Len(S2.pool) + Len(S1.ret),
                        winners |-> Len(S1.ret),
                        workspace_occupancy |-> Len(S2.ws),
                        workspace_capacity |-> capacity]])
        /\ UNCHANGED <<capacity, decay_rate, competition_threshold, processors>>

ProcessCycle(max) == ProcessCycleStep(max) /\ UNCHANGED <<metavars, turnvars, racevars, neurovars>>

\* GlobalWorkspace.clear
Clear ==
    /\ workspace_contents' = <<>>
    /\ competition_pool' = <<>>
    /\ ret' = None
    /\ UNCHANGED <<clock, capacity, decay_rate, competition_threshold, info, bcast,
                   processors, output_queue, input_buffer, broadcast_history,
                   submitted>>
    /\ UNCHANGED <<metavars, turnvars, racevars, neurovars>>

(* ------------------------- WorkingMemory ------------------------------- *)
\* RecursiveMetaCognition.__init__: max_recursion_depth defaults to 3 and the
\* working memory holds 7 thoughts
DefaultMaxDepth == 3
WMCapacity == 7

Thought(level, content, t, thought_type) ==
    [level |-> level, content |-> content, timestamp |-> t, thought_type |-> thought_type]

\* WorkingMemory.add
AddKeepingWeights(wm, thought, attention) ==
    LET buf == Append(wm.buffer, thought)
        att == Append(wm.attention_weights, attention)
    IN IF Len(buf) > wm.capacity
       THEN [wm EXCEPT !.buffer = Tail(buf), !.attention_weights = att]
       ELSE [wm EXCEPT !.buffer = buf, !.attention_weights = att]

Add(wm, thought, attention) ==
    LET buf == Append(wm.buffer, thought)
        att == Append(wm.attention_weights, attention)
    IN IF Len(buf) > wm.capacity
       THEN [wm EXCEPT !.buffer = Tail(buf), !.attention_weights = Tail(att)]
       ELSE [wm EXCEPT !.buffer = buf, !.attention_weights = att]

\* WorkingMemory.__init__
NewWorkingMemory(c) == [capacity |-> c, buffer |-> <<>>, attention_weights |-> <<>>]

\* a caller adds a thought to the working memory
WorkingMemoryAdd(thought, attention) ==
    /\ working_memory' = Add(working_memory, thought, attention)
    /\ wm_log' = Append(wm_log, <<thought, attention>>)
    /\ UNCHANGED <<max_depth, consciousness_stream, stack, nodes, llm_calls, entries,
                   outcome>>
    /\ UNCHANGED <<gwvars, turnvars, racevars, neurovars>>

\* WorkingMemory.clear
Cleared(wm) == [wm EXCEPT !.buffer = <<>>, !.attention_weights = <<>>]

WorkingMemoryClear ==
    /\ working_memory' = Cleared(working_memory)
    /\ wm_log' = <<>>
    /\ UNCHANGED <<max_depth, consciousness_stream, stack, nodes, llm_calls, entries,
                   outcome>>
    /\ UNCHANGED <<gwvars, turnvars, racevars, neurovars>>

(* --------------------- RecursiveMetaCognition -------------------------- *)
\* RecursiveMetaCognition.__init__ around a working memory of capacity c
MetaInitWith(k, c) ==
    /\ max_depth = k
    /\ working_memory = NewWorkingMemory(c)
    /\ wm_log = <<>>
    /\ consciousness_stream = <<>>
    /\ stack = <<>>
    /\ nodes = <<>>
    /\ llm_calls = <<>>
    /\ entries = 0
    /\ outcome = [status |-> "idle", result |-> 0]

MetaInit(k) == MetaInitWith(k, WMCapacity)

\* line 107: the base case
BaseCaseLate(depth, k) == depth > k
BaseCase(depth, k) == depth >= k

\* line 122
AttentionWeightNoFloor(depth) == RSub(One, RMul(<<depth, 1>>, <<1, 5>>))
AttentionWeight(depth) ==
    LET w == RSub(One, RMul(<<depth, 1>>, <<1, 5>>))
    IN IF RGt(<<1, 5>>, w) THEN <<1, 5>> ELSE w

\* lines 129, 135, 141, 147: thought[:150]
PromptCut == 150

\* lines 127-150: the reflection prompt, as the template chosen and the text put in
ReflectionPrompt(depth, thought) ==
    [template |-> IF depth = 0 THEN "Response"
                  ELSE IF depth = 1 THEN "You noticed"
                  ELSE IF depth = 2 THEN "You evaluated"
                  ELSE "Reflect on",
     text |-> Truncate(thought, PromptCut)]

\* lines 127-150: the type tag of the reflection
NextType(depth) ==
    IF depth = 0 THEN "observation"
    ELSE IF depth = 1 THEN "evaluation"
    ELSE IF depth = 2 THEN "introspection"
    ELSE "meta-" \o ToString(depth)

\* line 153
ReflectMaxLength == 30

\* line 157: what the recursive call is given to reflect on
NextInputOriginal(thought, meta_thought) == thought
NextInput(thought, meta_thought) == meta_thought

\* the dict a call returns (lines 108-113 and 165-170); meta_reflection refers to
\* a dict of the heap, 0 is None
Node(level, content, type, deeper) ==
    [level |-> level, content |-> content, type |-> type, meta_reflection |-> deeper]

Frame(depth, thought, thought_type) ==
    [depth |-> depth, thought |-> thought, thought_type |-> thought_type,
     pc |-> "entry", next_type |-> ""]

Top == stack[Len(stack)]
Pop == SubSeq(stack, 1, Len(stack) - 1)

\* a frame returns the dict n: to the frame below, or to the top-level caller
ReturnNode(n) ==
    /\ nodes' = Append(nodes, n)
    /\ stack' = Pop
    /\ outcome' = [status |-> IF Len(stack) = 1 THEN "returned" ELSE "running",
                   result |-> Len(nodes) + 1]

\* a top-level call process_with_true_recursion(thought, context, llm_generator)
CallStep(thought) ==
    /\ outcome.status # "running"
    /\ stack' = <<Frame(0, thought, "response")>>
    /\ nodes' = <<>>
    /\ llm_calls' = <<>>
    /\ entries' = 0
    /\ outcome' = [status |-> "running", result |-> 0]
    /\ UNCHANGED <<max_depth, working_memory, consciousness_stream, wm_log>>

Call(thought) == CallStep(thought) /\ UNCHANGED <<gwvars, turnvars, racevars, neurovars>>

\* lines 106-150: the function is entered; up to the call of llm_generator
Enter ==
    /\ stack # <<>>
    /\ Top.pc = "entry"
    /\ entries' = entries + 1
    /\ IF BaseCase(Top.depth, max_depth)
       THEN /\ ReturnNode(Node(Top.depth, Top.thought, Top.thought_type, 0))
            /\ UNCHANGED <<working_memory, consciousness_stream, wm_log>>
       ELSE LET current_thought == Thought(Top.depth, Top.thought, clock, Top.thought_type)
            IN /\ working_memory' = Add(working_memory, current_thought,
                                        AttentionWeight(Top.depth))
               /\ wm_log' = Append(wm_log, <<current_thought, AttentionWeight(Top.depth)>>)
               /\ consciousness_stream' = Append(consciousness_stream, current_thought)
               /\ stack' = [stack EXCEPT ![Len(stack)].pc = "llm",
                                         ![Len(stack)].next_type = NextType(Top.depth)]
               /\ UNCHANGED <<nodes, outcome>>
    /\ UNCHANGED <<max_depth, llm_calls>>
    /\ UNCHANGED <<gwvars, turnvars, racevars, neurovars>>

\* lines 153-162: llm_generator returns meta_thought and the function calls itself
Reflect(meta_thought) ==
    /\ stack # <<>>
    /\ Top.pc = "llm"
    /\ llm_calls' = Append(llm_calls,
                           [prompt |-> ReflectionPrompt(Top.depth, Top.thought),
                            max_length |-> ReflectMaxLength,
                            raised |-> FALSE, returned |-> meta_thought])
    /\ stack' = Append([stack EXCEPT ![Len(stack)].pc = "wait"],
                       Frame(Top.depth + 1, NextInput(Top.thought, meta_thought),
                             Top.next_type))
    /\ UNCHANGED <<max_depth, working_memory, consciousness_stream, nodes, entries,
                   outcome, wm_log>>
    /\ UNCHANGED <<gwvars, turnvars, racevars, neurovars>>

\* lines 153-162: no except clause stands between the failing call and the
\* caller, so the exception unwinds every frame and nothing recorded is undone
RaisedThroughUndoing(stream, frames) == SubSeq(stream, 1, Len(stream) - Len(frames))
RaisedThrough(stream, frames) == stream

\* line 153: llm_generator raises; no frame catches the exception
ReflectRaises ==
    /\ stack # <<>>
    /\ Top.pc = "llm"
    /\ llm_calls' = Append(llm_calls,
                           [prompt |-> ReflectionPrompt(Top.depth, Top.thought),
                            max_length |-> ReflectMaxLength,
                            raised |-> TRUE, returned |-> <<>>])
    /\ stack' = <<>>
    /\ outcome' = [status |-> "raised", result |-> 0]
    /\ consciousness_stream' = RaisedThrough(consciousness_stream, stack)
    /\ UNCHANGED <<max_depth, working_memory, nodes, entries, wm_log>>
    /\ UNCHANGED <<gwvars, turnvars, racevars, neurovars>>

\* lines 165-170: the recursive call has returned
Return ==
    /\ stack # <<>>
    /\ Top.pc = "wait"
    /\ ReturnNode(Node(Top.depth, Top.thought, Top.thought_type, outcome.result))
    /\ UNCHANGED <<max_depth, working_memory, consciousness_stream, llm_calls, entries,
                   wm_log>>
    /\ UNCHANGED <<gwvars, turnvars, racevars, neurovars>>

\* flatten_recursive_results: a dict is truthy, None is not
Truthy(ref) == ref # 0

RECURSIVE Traverse(_, _)
Traverse(h, node) ==
    IF node = 0 THEN <<>>
    ELSE <<[level |-> h[node].level, type |-> h[node].type, content |-> h[node].content]>>
         \o (IF Truthy(h[node].meta_reflection)
             THEN Traverse(h, h[node].meta_reflection) ELSE <<>>)

FlattenRecursiveResults(h, recursive_dict) == Traverse(h, recursive_dict)

(* ------------------ ConsciousnessSimulator.process_input --------------- *)
\* the texts of a turn, as sequences of character codes
UserInput == <<5>>
ResponseText == <<1>>
ReflectionText == <<2>>
CrisisResponse == <<6>>
\* line 816: the text _generate_response returns when the generator raised
GenerationError == <<91>>
\* lines 455-465: the disclaimer put around the first 200 characters of a flagged
\* response
DisclaimerCut == 200
Disclaimer(response) == <<78>> \o Truncate(response, DisclaimerCut) \o <<73>>

\* lines 774-816: _generate_response, the whole body inside try/except; g is what
\* the generator does ("fail": it raises), text what it returns otherwise
GenerateResponseRaising(g, text) == [raised |-> g = "fail", text |-> text]
GenerateResponse(g, text) ==
    [raised |-> FALSE, text |-> IF g = "fail" THEN GenerationError ELSE text]

\* lines 818-820
GenerateShortReflection(g) == GenerateResponse(g, ReflectionText)

\* EmotionProcessor.process_emotion: the (content, salience, relevance) submitted
ContextCut == 50
ProcessEmotion(intensity, text) ==
    <<<<70>> \o Truncate(text, ContextCut), intensity,
      IF RGt(intensity, <<3, 5>>) THEN <<4, 5>> ELSE <<1, 2>>>>

\* LanguageProcessor.process_input
LanguageCut == 100
ProcessInput(text, is_question, has_emotion) ==
    <<<<76>> \o Truncate(text, LanguageCut),
      IF is_question THEN <<9, 10>> ELSE <<3, 5>>,
      IF has_emotion THEN <<4, 5>> ELSE <<3, 5>>>>

\* MetaCognitiveProcessor.submit_reflection
SubmitReflection(reflection, level) ==
    LET s == RSub(<<4, 5>>, RMul(<<level, 1>>, <<3, 20>>)) IN
    <<<<77, level>> \o reflection, IF RGt(s, <<3, 10>>) THEN s ELSE <<3, 10>>, <<7, 10>>>>

\* SpecializedProcessor.submit_to_workspace for the items <<processor, input>>, one
\* after the other, on the heap
EnqueueFirst(h, outq, items, t) ==
    IF items = <<>> THEN [h |-> h, outq |-> outq]
    ELSE [h |-> Append(h, NewInformation(ProcName(Head(items)[1]), Head(items)[2], t)),
          outq |-> [outq EXCEPT ![Head(items)[1]] = Append(@, Len(h) + 1)]]

RECURSIVE EnqueueAll(_, _, _, _)
EnqueueAll(h, outq, items, t) ==
    IF items = <<>> THEN [h |-> h, outq |-> outq]
    ELSE LET o == Head(items)[1]
             inp == Head(items)[2]
         IN EnqueueAll(Append(h, NewInformation(ProcName(o), inp, t)),
                       [outq EXCEPT ![o] = Append(@, Len(h) + 1)], Tail(items), t)

Enqueue(items) ==
    /\ \E r \in {EnqueueAll(info, output_queue, items, clock)} :
          info' = r.h /\ output_queue' = r.outq
    /\ ret' = None
    /\ UNCHANGED <<clock, capacity, decay_rate, competition_threshold, bcast,
                   workspace_contents, competition_pool, processors, input_buffer,
                   broadcast_history, submitted>>

\* the processor objects of the simulator (lines 177-185)
EmotionProcessor == 1
LanguageProcessor == 2
MemoryProcessor == 4
MetaCognitiveProcessor == 5
\* what the emotion detector and the linguistic analyzer find in the user's input
\* and in the response
UserIntensity == <<3, 4>>
BotIntensity == <<1, 2>>
\* the label the detector gives the response (line 429)
BotEmotion == "neutral"

\* lines 325-383: process_input up to the generation of the response.  A critical
\* input that requires crisis resources is answered at once (lines 348-356).
TurnStart(crisis, gen, risk) ==
    /\ turn.pc = "idle"
    /\ IF crisis
       THEN /\ turn' = [turn EXCEPT !.response = CrisisResponse, !.gen = <<>>,
                                    !.risk = FALSE, !.cycles = 0, !.count = @ + 1,
                                    !.last = "crisis"]
            /\ UNCHANGED gwvars
       ELSE /\ Enqueue(<<<<EmotionProcessor, ProcessEmotion(UserIntensity, UserInput)>>,
                         <<LanguageProcessor, ProcessInput(UserInput, TRUE, FALSE)>>>>)
            /\ turn' = [turn EXCEPT !.pc = "generate", !.response = <<>>, !.gen = gen,
                                    !.risk = risk, !.cycles = 0, !.count = @ + 1]
    /\ UNCHANGED <<metavars, racevars, neurovars>>

\* lines 385-464: the response is generated, the neurochemistry updated from the
\* bot's emotion, the processors enqueue the bot's emotion and the response, a
\* flagged response gets the disclaimer
TurnRespond ==
    /\ turn.pc = "generate"
    /\ \E r \in {GenerateResponse(turn.gen[1], ResponseText)} :
          IF r.raised
          THEN /\ turn' = [turn EXCEPT !.pc = "aborted", !.last = "error"]
               /\ UNCHANGED <<gwvars, neurochemistry>>
          ELSE /\ Enqueue(<<<<EmotionProcessor, ProcessEmotion(BotIntensity, r.text)>>,
                            <<LanguageProcessor, ProcessInput(r.text, FALSE, FALSE)>>>>)
               /\ turn' = [turn EXCEPT !.pc = "reflect",
                                       !.response = IF turn.risk THEN Disclaimer(r.text)
                                                    ELSE r.text]
               /\ neurochemistry' =
                     [neurochemistry EXCEPT
                         !.levels = UpdateFromEmotion(@, BotEmotion, BotIntensity)]
    /\ UNCHANGED <<metavars, racevars, neuro_calls>>

\* lines 483-489: process_with_true_recursion is called on the response
TurnMeta ==
    /\ turn.pc = "reflect"
    /\ CallStep(turn.response)
    /\ turn' = [turn EXCEPT !.pc = "meta"]
    /\ UNCHANGED <<gwvars, racevars, neurovars>>

\* line 153 with llm_generator = _generate_short_reflection
TurnReflect ==
    /\ turn.pc = "meta"
    /\ Len(llm_calls) + 2 \in DOMAIN turn.gen
    /\ \E r \in {GenerateShortReflection(turn.gen[Len(llm_calls) + 2])} :
          IF r.raised THEN ReflectRaises ELSE Reflect(r.text)

\* lines 492-502: the tree is flattened and every entry submitted as a reflection
TurnSubmitReflections ==
    /\ turn.pc = "meta"
    /\ outcome.status = "returned"
    /\ LET flat == FlattenRecursiveResults(nodes, outcome.result)
       IN Enqueue([i \in DOMAIN flat |->
                      <<MetaCognitiveProcessor,
                        SubmitReflection(flat[i].content, flat[i].level)>>])
    /\ turn' = [turn EXCEPT !.pc = "cycle"]
    /\ UNCHANGED <<metavars, racevars, neurovars>>

\* line 505: the turn's process_cycle, and line 570: the homeostatic decay; what
\* else follows (metrics, logging, display) leaves workspace, meta-cognition and
\* neurochemistry alone, and the interaction is returned
TurnProcessCycle(max) ==
    /\ turn.pc = "cycle"
    /\ ProcessCycleStep(max)
    /\ turn' = [turn EXCEPT !.pc = "idle", !.cycles = @ + 1, !.last = "turn"]
    /\ neurochemistry' =
          [neurochemistry EXCEPT
              !.levels = HomeostaticDecay(@, neurochemistry.decay_rate)]
    /\ UNCHANGED <<metavars, racevars, neuro_calls>>

\* chat, the 'reset' command (lines 955-960): Working Memory, neurochemistry and
\* conversation memory are reset
Reset ==
    /\ turn.pc = "idle"
    /\ working_memory' = Cleared(working_memory)
    /\ wm_log' = <<>>
    /\ turn' = [turn EXCEPT !.last = "reset"]
    /\ neurochemistry' = NewNeurochemicalSystem(DefaultNeuroDecay)
    /\ UNCHANGED <<max_depth, consciousness_stream, stack, nodes, llm_calls, entries,
                   outcome>>
    /\ UNCHANGED <<gwvars, racevars, neuro_calls>>

(* ------------- competition_cycle, statement by statement --------------- *)
\* Nothing serializes the calls of GlobalWorkspace: a competition_cycle running in
\* one thread is interleaved with the calls of other threads at the boundaries of
\* its statements.  Its steps here: lines 124-141, the right-hand side of line 144,
\* the store of line 144 with lines 146-161.

\* lines 124-141: the early return; otherwise activations recomputed, the pool
\* sorted in place, the winners selected and appended to the active set
CycleSelect ==
    /\ running.pc = "none"
    /\ IF competition_pool = <<>>
       THEN /\ ret' = RetBroadcasts(<<>>)
            /\ UNCHANGED <<info, competition_pool, workspace_contents, running>>
       ELSE \E h1 \in {Recompute(info, competition_pool, clock, Len(competition_pool))} :
            \E sorted \in {SortDesc(competition_pool, h1)} :
            \E winners \in {Winners(h1, sorted, AvailableSlots(capacity, workspace_contents),
                                    competition_threshold)} :
               /\ info' = h1
               /\ competition_pool' = sorted
               /\ workspace_contents' = Admit(workspace_contents, winners)
               /\ running' = [NoCycle EXCEPT !.pc = "selected", !.winners = winners]
               /\ UNCHANGED ret
    /\ UNCHANGED <<clock, capacity, decay_rate, competition_threshold, bcast, processors,
                   output_queue, input_buffer, broadcast_history, submitted>>
    /\ UNCHANGED <<metavars, turnvars, neurovars>>

\* line 144, right-hand side: the comprehension reads the pool list and builds the
\* filtered list; the attribute still names the list it read
CycleFilter ==
    /\ running.pc = "selected"
    /\ running' = [running EXCEPT
                      !.pc = "filtered",
                      !.read = Len(competition_pool),
                      !.filtered = RemoveWinners(info, competition_pool, running.winners)]
    /\ UNCHANGED <<gwvars, metavars, turnvars, neurovars>>

\* line 144, the store: the attribute is rebound to the list the comprehension
\* built (pool: the list the attribute names at that time, read: how much of it
\* the comprehension read)
ReassignedMerging(pool, filtered, read) == filtered \o SubSeq(pool, read + 1, Len(pool))
Reassigned(pool, filtered, read) == filtered

\* line 144's store and lines 146-161: the winners are broadcast and returned
CycleFinish ==
    /\ running.pc = "filtered"
    /\ LET bids == [k \in DOMAIN running.winners |-> Len(bcast) + k]
       IN /\ competition_pool' = Reassigned(competition_pool, running.filtered, running.read)
          /\ bcast' = bcast \o [k \in DOMAIN running.winners |->
                                   NewBroadcast(running.winners[k], clock, processors)]
          /\ input_buffer' = [o \in ProcObjs |->
                                 Deliver(input_buffer[o], processors, o, bids)]
          /\ broadcast_history' = broadcast_history \o bids
          /\ ret' = RetBroadcasts(bids)
    /\ running' = NoCycle
    /\ UNCHANGED <<clock, capacity, decay_rate, competition_threshold, info,
                   workspace_contents, processors, output_queue, submitted>>
    /\ UNCHANGED <<metavars, turnvars, neurovars>>

(* --------------------- the arbitration specification ------------------ *)
\* One registered processor and an outside caller submit units; the workspace
\* operations are called in any order, at any time.
MoreUnits == Len(info) < MaxUnits

Next ==
    \/ Tick(MaxClock)
    \/ MoreUnits /\ \E inp \in Inputs : SubmitToWorkspace(1, inp)
    \/ MoreUnits /\ \E inp \in Inputs : SubmitInformation(ProcName(1), inp)
    \/ \E tk \in TickPoints(competition_pool, MaxClock) : CompetitionCycle(tk)
    \/ DecayWorkspace
    \/ ProcessCycle(MaxClock)

Init == TurnInit /\ MetaInit(DefaultMaxDepth) /\ \E cfg \in Configs : GWInit(cfg, <<1>>)
vars == <<gwvars, metavars, turnvars, racevars, neurovars>>
Spec == Init /\ [][Next]_vars

(* --------------------- the interleaving specification ------------------ *)
\* One thread runs competition_cycle again and again while another submits units
\* at any time, between any two statements of the cycle.
RaceUnits == 3

RaceNext ==
    \/ Tick(MaxClock)
    \/ Len(info) < RaceUnits /\ \E inp \in Inputs : SubmitInformation(ProcName(1), inp)
    \/ CycleSelect
    \/ CycleFilter
    \/ CycleFinish

SpecRace == Init /\ [][RaceNext]_vars

\* The owner of the workspace calls process_cycle or decay_workspace again and
\* again.  Either call changes the state while a unit is active and decay_rate
\* is not 0 (Decaying), so weak fairness of the two,
\* WF_vars(DecayWorkspace \/ ProcessCycle(MaxClock)), implies DecayFair: again and
\* again nothing is decaying or one of the two calls is made.
Decaying == RGt(decay_rate, Zero) /\ workspace_contents # <<>>
DecayFair ==
    \/ []<>(~Decaying)
    \/ []<><<DecayWorkspace \/ ProcessCycle(MaxClock)>>_vars
SpecDecayFair == Spec /\ DecayFair

(* ----------------------- the ordering specification -------------------- *)
\* Two processors, registered in either order, and an outside caller submit the
\* units of OrderScript one after the other; capacity 2.
OrderClock == 2
OrderConfigs == {<<2, <<1, 2>>, <<1, 10>>>>}
\* priorities at age 0 / 1 / 2: 2/5, 3/10, 4/15 and 11/30, 4/15, 7/30
OrderScript == <<<<<<1>>, <<1, 2>>, Zero>>, <<<<1>>, <<1, 2>>, Zero>>,
                 <<<<1>>, <<1, 2>>, Zero>>, <<<<2>>, <<5, 12>>, Zero>>>>
OrderMore == Len(info) < Len(OrderScript)
OrderInput == OrderScript[Len(info) + 1]

OrderNext ==
    \/ Tick(OrderClock)
    \/ OrderMore /\ \E o \in {1, 2} : SubmitToWorkspace(o, OrderInput)
    \/ OrderMore /\ SubmitInformation(ProcName(1), OrderInput)
    \/ \E tk \in TickPoints(competition_pool, OrderClock) : CompetitionCycle(tk)
    \/ DecayWorkspace
    \/ ProcessCycle(OrderClock)

OrderInit ==
    /\ TurnInit /\ MetaInit(DefaultMaxDepth)
    /\ \E cfg \in OrderConfigs, procs \in {<<1, 2>>, <<2, 1>>} : GWInit(cfg, procs)
SpecOrder == OrderInit /\ [][OrderNext]_vars

(* ----------------------- the scenario specification -------------------- *)
\* capacity 2, decay_rate 1/2, competition_threshold 2/5; an outside caller submits
\* units of priority 9/10, 3/5 and 3/10 (at age 0)
ScenarioUnits == 3
ScenarioClock == 1
ScenarioConfig == <<2, <<1, 2>>, <<2, 5>>>>
ScenarioInputs ==
    {<<<<1>>, One, <<3, 4>>>>, <<<<2>>, <<1, 2>>, <<1, 2>>>>, <<<<3>>, <<1, 4>>, Zero>>}

ScenarioNext ==
    \/ Tick(ScenarioClock)
    \/ /\ Len(info) < ScenarioUnits
       /\ \E inp \in ScenarioInputs : SubmitInformation(ProcName(2), inp)
    \/ \E tk \in TickPoints(competition_pool, ScenarioClock) : CompetitionCycle(tk)
    \/ DecayWorkspace

ScenarioInit == TurnInit /\ MetaInit(DefaultMaxDepth) /\ GWInit(ScenarioConfig, <<1>>)
SpecScenario == ScenarioInit /\ [][ScenarioNext]_vars

(* -------------------- the meta-cognition specification ----------------- *)
\* Top-level calls of process_with_true_recursion, one after the other, on an
\* engine built with max_depth in 0..MaxDepth; llm_generator returns one of
\* Reflections or raises.
MaxDepth == 4
MaxThoughts == 3
LongText == [i \in 1..(PromptCut + 1) |-> 7]
Responses == {<<1>>, LongText}
Reflections == {<<>>, <<2>>}

MetaNext ==
    \/ /\ Len(consciousness_stream) < MaxThoughts
       /\ \E thought \in Responses : Call(thought)
    \/ Enter
    \/ \E meta_thought \in Reflections : Reflect(meta_thought)
    \/ ReflectRaises
    \/ Return

MetaGWInit == GWInit(<<1, Zero, <<1, 10>>>>, <<1>>)
MetaSpecInit == TurnInit /\ MetaGWInit /\ \E k \in 0..MaxDepth : MetaInit(k)
SpecMeta == MetaSpecInit /\ [][MetaNext]_vars

\* the interpreter runs the call on, and llm_generator answers (or raises)
SpecMetaFair ==
    /\ SpecMeta
    /\ WF_vars(Enter)
    /\ WF_vars((\E meta_thought \in Reflections : Reflect(meta_thought)) \/ ReflectRaises)
    /\ WF_vars(Return)

(* ------------------------- the cycles specification -------------------- *)
\* The workspace driven by process_cycle alone: processors enqueue units, time
\* passes, and every competition and decay happens inside a process_cycle.
CyclesNext ==
    \/ Tick(MaxClock)
    \/ MoreUnits /\ \E inp \in Inputs : SubmitToWorkspace(1, inp)
    \/ ProcessCycle(MaxClock)

SpecCycles == Init /\ [][CyclesNext]_vars

(* ---------------------- the deep-recursion specification --------------- *)
\* One call with max_depth up to DeepDepth, beyond the capacity of the Working
\* Memory; llm_generator answers or raises at any level.
DeepDepth == 8

DeepNext ==
    \/ /\ outcome.status = "idle"
       /\ \E thought \in Responses : Call(thought)
    \/ Enter
    \/ \E meta_thought \in Reflections : Reflect(meta_thought)
    \/ ReflectRaises
    \/ Return

DeepInit == TurnInit /\ MetaGWInit /\ \E k \in 0..DeepDepth : MetaInit(k)
SpecDeep == DeepInit /\ [][DeepNext]_vars

(* -------------------------- the turn specification -------------------- *)
\* The simulator with its defaults (capacity 5, decay 0.30, threshold 0.5, the
\* four processors registered) takes turns and reset commands; in each turn the
\* generator fails at any of its calls.
MaxTurns == 2
TurnDepth == 2
TurnConfig == <<5, <<3, 10>>, <<1, 2>>>>
Generators(k) == [1..(k + 1) -> {"ok", "fail"}]

TurnNext ==
    \/ turn.pc = "idle" /\ Tick(MaxClock)
    \/ /\ turn.count < MaxTurns
       /\ \E crisis \in BOOLEAN, gen \in Generators(max_depth), risk \in BOOLEAN :
             /\ crisis => (risk = FALSE /\ \A i \in DOMAIN gen : gen[i] = "ok")
             /\ TurnStart(crisis, gen, risk)
    \/ TurnRespond
    \/ TurnMeta
    \/ turn.pc = "meta" /\ Enter
    \/ TurnReflect
    \/ turn.pc = "meta" /\ Return
    \/ TurnSubmitReflections
    \/ TurnProcessCycle(MaxClock)
    \/ Reset

TurnSpecInit ==
    /\ TurnInit
    /\ GWInit(TurnConfig, <<EmotionProcessor, LanguageProcessor, MemoryProcessor,
                            MetaCognitiveProcessor>>)
    /\ \E k \in 0..TurnDepth : MetaInit(k)
SpecTurn == TurnSpecInit /\ [][TurnNext]_vars

(* ------------------------ the registry specification ------------------- *)
\* A workspace constructed without processors; processor objects (two of them
\* named "emotion") are registered at any time, and every processor object,
\* registered or not, can enqueue units.
RegistryUnits == 2
RegistryConfigs == {<<2, <<1, 2>>, <<1, 10>>>>}
RegistryInputs == {<<<<1>>, One, <<3, 4>>>>}
RegistryObjs == {1, 2, 3}

RegistryNext ==
    \/ Tick(MaxClock)
    \/ \E o \in RegistryObjs : RegisterProcessor(o)
    \/ /\ Len(info) < RegistryUnits
       /\ \E o \in RegistryObjs, inp \in RegistryInputs : SubmitToWorkspace(o, inp)
    \/ ProcessCycle(MaxClock)

RegistryInit ==
    TurnInit /\ MetaInit(DefaultMaxDepth) /\ \E cfg \in RegistryConfigs : GWInit(cfg, <<>>)
SpecRegistry == RegistryInit /\ [][RegistryNext]_vars

(* ----------------------- the attention specification ------------------- *)
\* One top-level call of process_with_true_recursion, with max_depth up to
\* AttentionDepth, so that Thoughts are recorded at depths beyond 4.
AttentionDepth == 6

AttentionNext ==
    \/ /\ outcome.status = "idle"
       /\ \E thought \in Responses : Call(thought)
    \/ Enter
    \/ \E meta_thought \in Reflections : Reflect(meta_thought)
    \/ Return

AttentionInit == TurnInit /\ MetaGWInit /\ \E k \in 0..AttentionDepth : MetaInit(k)
SpecAttention == AttentionInit /\ [][AttentionNext]_vars

(* ------------------------- the frame specification --------------------- *)
\* The arbitration specification with GlobalWorkspace.clear among the operations.
FrameNext ==
    \/ Tick(MaxClock)
    \/ MoreUnits /\ \E inp \in Inputs : SubmitToWorkspace(1, inp)
    \/ MoreUnits /\ \E inp \in Inputs : SubmitInformation(ProcName(1), inp)
    \/ \E tk \in TickPoints(competition_pool, MaxClock) : CompetitionCycle(tk)
    \/ DecayWorkspace
    \/ ProcessCycle(MaxClock)
    \/ Clear

SpecFrame == Init /\ [][FrameNext]_vars

(* ------------------------- the floor specification --------------------- *)
\* The arbitration specification with thresholds below, at and above the decay
\* floor, and units whose priority is 1/5 (age 0) and 1/10 (age 1), or 2/5 and 3/10.
FloorConfigs == {<<1, Zero, Zero>>, <<2, <<1, 2>>, <<1, 10>>>>,
                 <<1, <<1, 2>>, <<1, 5>>>>, <<2, Zero, <<1, 2>>>>}
FloorInputs == {<<<<1>>, Zero, Zero>>, <<<<2>>, <<1, 2>>, Zero>>}

FloorNext ==
    \/ Tick(MaxClock)
    \/ MoreUnits /\ \E inp \in FloorInputs : SubmitToWorkspace(1, inp)
    \/ MoreUnits /\ \E inp \in FloorInputs : SubmitInformation(ProcName(1), inp)
    \/ \E tk \in TickPoints(competition_pool, MaxClock) : CompetitionCycle(tk)
    \/ DecayWorkspace
    \/ ProcessCycle(MaxClock)

FloorInit == TurnInit /\ MetaInit(DefaultMaxDepth) /\ \E cfg \in FloorConfigs : GWInit(cfg, <<1>>)
SpecFloor == FloorInit /\ [][FloorNext]_vars

(* -------------------- the working-memory specification ----------------- *)
\* A working memory of capacity 1..MaxCapacity; callers add thoughts with any of
\* the weights and clear it, in any order.
MaxCapacity == 3
MaxAdds == 4
WMThoughts == {Thought(l, <<l + 1>>, 0, "response") : l \in 0..1}
WMWeights == {One, <<1, 5>>}

WMNext ==
    \/ /\ Len(wm_log) < MaxAdds
       /\ \E thought \in WMThoughts, attention \in WMWeights :
              WorkingMemoryAdd(thought, attention)
    \/ WorkingMemoryClear

WMSpecInit ==
    /\ MetaGWInit
    /\ TurnInit
    /\ \E c \in 1..MaxCapacity : MetaInitWith(DefaultMaxDepth, c)
SpecWM == WMSpecInit /\ [][WMNext]_vars

(* -------------------- the neurochemistry specification ----------------- *)
\* A NeurochemicalSystem whose owner has set some decay_rate in [0, 1] is given
\* emotions (the labels of the table and an unknown one) at intensities in [0, 1]
\* and decays, in any order.
MaxNeuroCalls == 3
Emotions == DOMAIN EmotionMappings \cup {"curiosity"}
Intensities == {Zero, <<7, 10>>, One}
NeuroRates == {Zero, DefaultNeuroDecay, <<1, 2>>, One}

NeuroNext ==
    \/ /\ neuro_calls < MaxNeuroCalls
       /\ \E emotion \in Emotions, intensity \in Intensities :
             UpdateFromEmotionCall(emotion, intensity)
    \/ neuro_calls < MaxNeuroCalls /\ HomeostaticDecayCall

NeuroSpecInit ==
    /\ turn = NoTurn
    /\ running = NoCycle
    /\ MetaGWInit
    /\ MetaInit(DefaultMaxDepth)
    /\ \E rate \in NeuroRates : NeuroInit(rate)
SpecNeuro == NeuroSpecInit /\ [][NeuroNext]_vars

(* ------------------------------- claims -------------------------------- *)
\* The step is a call of competition_cycle / of process_cycle: the call's result
\* is in ret', and the step is not a Tick (the only step that advances the clock
\* and touches no unit: a cycle during which the clock advances recomputes a unit).
IsTick == clock' # clock /\ info' = info
IsCompetitionCycle == ret'.kind = "broadcasts" /\ ~IsTick
IsProcessCycle == ret'.kind = "summary" /\ ~IsTick

Active == Range(workspace_contents)
Pooled == Range(competition_pool)
Queued == UNION {Range(output_queue[o]) : o \in ProcObjs}
Broadcast == {bcast[b].information : b \in DOMAIN bcast}
Act(i) == info[i].activation_level

\* C1: the active set never holds more than capacity units.
C1_CapacityInvariant == Len(workspace_contents) <= capacity

\* a competition cycle has just admitted nothing although a pooled unit meets the
\* threshold: every slot is taken
C1_Witness ==
    /\ ret = RetBroadcasts(<<>>)
    /\ Len(workspace_contents) = capacity
    /\ \E i \in Pooled : RGe(Act(i), competition_threshold)

\* C2: a unit that enters the active set, or is broadcast, in a step has a priority,
\* recomputed at a time of that step, that is >= competition_threshold.
C2_AdmissionThreshold ==
    [][\A i \in DOMAIN info' :
          (\/ i \in Range(workspace_contents') \ Active
           \/ i \in {bcast'[b].information : b \in DOMAIN bcast'} \ Broadcast)
          => \E t \in clock..clock' :
                 RGe(GetPriority(info'[i], t), competition_threshold)]_vars

\* a unit that met the threshold when it was submitted has lost a cycle with a free
\* slot, because its recomputed priority is below the threshold
C2_Witness ==
    /\ ret = RetBroadcasts(<<>>)
    /\ Len(workspace_contents) < capacity
    /\ \E i \in Pooled :
          /\ RLt(Act(i), competition_threshold)
          /\ RGe(GetPriority(info[i], info[i].timestamp), competition_threshold)

\* C3: every submitted unit is pooled, active, or was admitted earlier (no losing
\* candidate is ever discarded).
C3_NoCandidateDiscarded ==
    \A i \in DOMAIN info : i \in Queued \cup Pooled \cup Active \cup Broadcast

\* C4 as stated: every decay_workspace call strictly decreases the activation of
\* every active unit, and keeps the unit iff the result is > 1/5.
C4_DecayStrict ==
    [][DecayWorkspace =>
          \A i \in Active :
              /\ info'[i].activation_level = RMul(Act(i), RSub(One, decay_rate))
              /\ RLt(info'[i].activation_level, Act(i))
              /\ i \in Range(workspace_contents')
                    <=> RGt(info'[i].activation_level, <<1, 5>>)]_vars

\* C4 amended: new = old * (1 - decay_rate), strictly less when decay_rate > 0 and
\* equal when decay_rate = 0; the unit is kept iff the result is > 1/5.
C4_Decay ==
    [][DecayWorkspace =>
          \A i \in Active :
              /\ info'[i].activation_level = RMul(Act(i), RSub(One, decay_rate))
              /\ RGt(decay_rate, Zero) => RLt(info'[i].activation_level, Act(i))
              /\ decay_rate = Zero => info'[i].activation_level = Act(i)
              /\ i \in Range(workspace_contents')
                    <=> RGt(info'[i].activation_level, <<1, 5>>)]_vars

\* a unit admitted under a threshold above the floor has decayed to exactly 1/5 and
\* is no longer active
C4_Witness ==
    \E i \in Broadcast \ Active :
        /\ Act(i) = <<1, 5>>
        /\ RGt(competition_threshold, <<1, 5>>)

\* C5: with capacity 2, decay_rate 1/2 and threshold 2/5, a competition cycle over
\* three pooled units of priority 9/10, 3/5 and 3/10 into an empty workspace admits
\* the first two, in that order, and leaves the third pooled; one decay_workspace
\* then gives 9/20 and 3/10, both still active; a second gives 9/40 and 3/20 and
\* evicts the 3/20 unit, leaving one active unit.
ActsOf(h, ids) == [k \in DOMAIN ids |-> h[ids[k]].activation_level]

C5_Scenario ==
    /\ [][(/\ IsCompetitionCycle
            /\ workspace_contents = <<>>
            /\ Len(competition_pool) = 3
            /\ Range(ActsOf(info', competition_pool)) = {<<9, 10>>, <<3, 5>>, <<3, 10>>})
           => /\ ActsOf(info', workspace_contents') = <<<<9, 10>>, <<3, 5>>>>
              /\ ActsOf(info', competition_pool') = <<<<3, 10>>>>
              /\ Range(workspace_contents') \cup Range(competition_pool')
                    = Range(competition_pool)]_vars
    /\ [][(DecayWorkspace /\ ActsOf(info, workspace_contents) = <<<<9, 10>>, <<3, 5>>>>)
           => /\ workspace_contents' = workspace_contents
              /\ ActsOf(info', workspace_contents') = <<<<9, 20>>, <<3, 10>>>>]_vars
    /\ [][(DecayWorkspace /\ ActsOf(info, workspace_contents) = <<<<9, 20>>, <<3, 10>>>>)
           => /\ workspace_contents' = <<workspace_contents[1]>>
              /\ ActsOf(info', workspace_contents) = <<<<9, 40>>, <<3, 20>>>>]_vars

\* the end of the scenario: one active unit at 9/40, the evicted one at 3/20, the
\* 3/10 unit still pooled
C5_Witness ==
    /\ ActsOf(info, workspace_contents) = <<<<9, 40>>>>
    /\ ActsOf(info, competition_pool) = <<<<3, 10>>>>
    /\ \E i \in Broadcast \ Active : Act(i) = <<3, 20>>

\* C6: a competition_cycle makes one broadcast record per admitted unit, in
\* admission order; each is in the mailbox of every registered processor (and of no
\* other), lists every registered name once, is appended to broadcast_history, and
\* the records made are exactly what the call returns.
NewBids == [k \in 1..(Len(bcast') - Len(bcast)) |-> Len(bcast) + k]
RegisteredNames == [k \in DOMAIN processors |-> processors[k].name]

C6_Broadcast ==
    [][IsCompetitionCycle =>
          LET adm == SubSeq(workspace_contents', Len(workspace_contents) + 1,
                            Len(workspace_contents'))
          IN /\ SubSeq(bcast', 1, Len(bcast)) = bcast
             /\ Len(NewBids) = Len(adm)
             /\ \A k \in DOMAIN adm :
                   /\ bcast'[NewBids[k]].information = adm[k]
                   /\ bcast'[NewBids[k]].reached_modules = RegisteredNames
             /\ \A k1, k2 \in DOMAIN processors :
                   processors[k1].name = processors[k2].name => k1 = k2
             /\ \A o \in ProcObjs :
                   input_buffer'[o] =
                       IF \E k \in DOMAIN processors : processors[k].obj = o
                       THEN input_buffer[o] \o NewBids ELSE input_buffer[o]
             /\ broadcast_history' = broadcast_history \o NewBids
             /\ ret' = RetBroadcasts(NewBids)]_vars

\* a competition cycle has just returned two broadcasts, and both registered
\* processors hold them
C6_Witness ==
    /\ ret.kind = "broadcasts"
    /\ Len(ret.broadcasts) = 2
    /\ Len(processors) = 2
    /\ \A k \in DOMAIN processors :
          SubSeq(input_buffer[processors[k].obj],
                 Len(input_buffer[processors[k].obj]) - 1,
                 Len(input_buffer[processors[k].obj])) = ret.broadcasts

\* C7: in one competition cycle (alone or inside process_cycle) the winners are
\* admitted and broadcast in descending priority order, every broadcast is
\* delivered to the processors in registration order, and winners of equal
\* priority are admitted in the tie order.  The tie order is: the order of the pool
\* when the cycle starts, the units a process_cycle collects coming after it in the
\* registration order of their processors.
IsCycle == IsCompetitionCycle \/ IsProcessCycle
\* the priority a unit broadcast in this step was admitted with
AdmPriority(k) ==
    IF ret'.kind = "summary" THEN ret'.summary.broadcasts[k].priority
    ELSE info'[bcast'[NewBids[k]].information].activation_level
Admitted == [k \in DOMAIN NewBids |-> bcast'[NewBids[k]].information]
\* the pool the competition of this step starts from
PoolBefore ==
    IF IsProcessCycle THEN competition_pool \o Collected(processors, output_queue, 1)
    ELSE competition_pool
Pos(seq, i) == CHOOSE k \in DOMAIN seq : seq[k] = i

DescendingAndDelivered ==
    /\ \A k1, k2 \in DOMAIN NewBids : k1 < k2 => RGe(AdmPriority(k1), AdmPriority(k2))
    /\ \A k \in DOMAIN NewBids : bcast'[NewBids[k]].reached_modules = RegisteredNames
    /\ \A o \in Range(Values(processors)) :
          input_buffer'[o] = input_buffer[o] \o NewBids

\* ties, for an order given as a sequence of units: winners of equal priority are
\* admitted in that order
TiesFollow(order) ==
    \A k1, k2 \in DOMAIN NewBids :
        (k1 < k2 /\ AdmPriority(k1) = AdmPriority(k2))
        => Pos(order, Admitted[k1]) < Pos(order, Admitted[k2])

\* within one process_cycle: of two winners of equal priority collected in that
\* cycle, the one whose processor was registered first comes first
RegistrationOrderOnTies ==
    IsProcessCycle =>
        \A k1, k2 \in DOMAIN NewBids : \A p1, p2 \in DOMAIN processors :
            (/\ Admitted[k1] \in Range(output_queue[processors[p1].obj])
             /\ Admitted[k2] \in Range(output_queue[processors[p2].obj])
             /\ AdmPriority(k1) = AdmPriority(k2)
             /\ p1 < p2)
            => k1 < k2

\* C7 as stated: the tie order is the order of submission
C7_OrderBySubmission ==
    [][IsCycle => /\ DescendingAndDelivered
                  /\ TiesFollow(submitted')
                  /\ RegistrationOrderOnTies]_vars

\* C7 amended: the tie order is the order of the pool when the cycle starts, which
\* an earlier cycle's sort may have made different from the order of submission
C7_Order ==
    [][IsCycle => /\ DescendingAndDelivered
                  /\ TiesFollow(PoolBefore)
                  /\ RegistrationOrderOnTies]_vars

\* a process_cycle has admitted two units of equal priority that it collected from
\* two processors, the unit created later first
C7_Witness ==
    /\ ret.kind = "summary"
    /\ Len(ret.summary.broadcasts) = 2
    /\ ret.summary.submissions = 2
    /\ ret.summary.broadcasts[1].priority = ret.summary.broadcasts[2].priority
    /\ ret.summary.broadcasts[1].source # ret.summary.broadcasts[2].source
    /\ bcast[Len(bcast) - 1].information > bcast[Len(bcast)].information

\* the top-level call has returned its tree
Returned == outcome.status = "returned"

RECURSIVE Chain(_, _)
\* the dicts of a tree, from the root along the meta_reflection links
Chain(h, n) == IF n = 0 THEN <<>> ELSE <<n>> \o Chain(h, h[n].meta_reflection)
Tree == Chain(nodes, outcome.result)

\* C8: with max_depth = k, the flattened result of a top-level call has exactly k+1
\* entries, of levels 0, 1, ..., k in that order; in the tree the level increases by
\* exactly 1 along each meta_reflection link, and only the level-k dict has
\* meta_reflection = None.
C8_DepthBound ==
    Returned =>
        LET flat == FlattenRecursiveResults(nodes, outcome.result) IN
        /\ Len(flat) = max_depth + 1
        /\ \A i \in DOMAIN flat : flat[i].level = i - 1
        /\ \A i \in DOMAIN Tree :
              LET n == nodes[Tree[i]] IN
              /\ n.meta_reflection # 0 => nodes[n.meta_reflection].level = n.level + 1
              /\ n.meta_reflection = 0 <=> n.level = max_depth

\* a call with max_depth >= 3 has returned a tree in which a reflection is the empty
\* text
C8_Witness ==
    /\ Returned
    /\ max_depth >= 3
    /\ \E i \in DOMAIN Tree : i > 1 /\ nodes[Tree[i]].content = <<>>

\* C9: a top-level call with max_depth = k enters the function at most k+1 times
\* and calls llm_generator at most k times; when it returns, llm_generator was
\* called exactly k times, the call for level d (d = 0..k-1) with the prompt of
\* depth d built from the first 150 characters of level d's content, and the
\* content of level d+1 is the text that call returned; and a running call ends.
C9_Bounded ==
    /\ entries <= max_depth + 1
    /\ Len(llm_calls) <= max_depth
    /\ Returned =>
          /\ Len(llm_calls) = max_depth
          /\ \A d \in 0..(max_depth - 1) :
                LET c == nodes[Tree[d + 1]].content IN
                /\ ~llm_calls[d + 1].raised
                /\ llm_calls[d + 1].prompt.text = SubSeq(c, 1, Min(Len(c), 150))
                /\ llm_calls[d + 1].prompt.template =
                       CASE d = 0 -> "Response" [] d = 1 -> "You noticed"
                         [] d = 2 -> "You evaluated" [] OTHER -> "Reflect on"
                /\ nodes[Tree[d + 2]].content = llm_calls[d + 1].returned

C9_Chaining ==
    /\ []C9_Bounded
    /\ (outcome.status = "running") ~> (outcome.status # "running")

\* a call on a response longer than 150 characters has returned, after two
\* reflections that differ from each other and from the response
C9_Witness ==
    /\ Returned
    /\ max_depth = 2
    /\ Len(nodes[Tree[1]].content) > 150
    /\ Len(llm_calls[1].prompt.text) = 150
    /\ nodes[Tree[2]].content # nodes[Tree[3]].content

\* C10: in the returned tree the type of a dict follows from its level: response,
\* observation, evaluation, introspection for 0..3, and "meta-L" for a level L > 3.
TypeOfLevel(L) ==
    CASE L = 0 -> "response" [] L = 1 -> "observation" [] L = 2 -> "evaluation"
      [] L = 3 -> "introspection" [] OTHER -> "meta-" \o ToString(L)

C10_TypeByLevel ==
    Returned => \A i \in DOMAIN Tree : nodes[Tree[i]].type = TypeOfLevel(nodes[Tree[i]].level)

\* the last n elements of a sequence
LastN(s, n) == SubSeq(s, Len(s) - n + 1, Len(s))

\* C11: buffer and attention_weights have the same length <= capacity; with n adds
\* since the last clear, they are the thoughts, and the weights given with them, of
\* the most recent min(n, capacity) adds, oldest first.
C11_WorkingMemoryFifo ==
    LET kept == LastN(wm_log, Min(Len(wm_log), working_memory.capacity)) IN
    /\ Len(working_memory.buffer) = Len(working_memory.attention_weights)
    /\ Len(working_memory.buffer) <= working_memory.capacity
    /\ working_memory.buffer = [i \in DOMAIN kept |-> kept[i][1]]
    /\ working_memory.attention_weights = [i \in DOMAIN kept |-> kept[i][2]]

\* more thoughts were added than the memory holds, and the one evicted had a
\* higher weight than one that was kept
C11_Witness ==
    /\ Len(wm_log) > working_memory.capacity
    /\ Len(working_memory.buffer) = working_memory.capacity
    /\ \E i \in DOMAIN working_memory.attention_weights :
          RLt(working_memory.attention_weights[i], wm_log[1][2])

\* C12 as stated: between operations every active unit has activation_level >= 1/5,
\* whatever the competition_threshold.
C12_FloorAnyThreshold == \A i \in Active : RGe(Act(i), <<1, 5>>)

\* C12 amended: between operations every active unit has activation_level
\* >= min(competition_threshold, 1/5); so >= 1/5 when competition_threshold >= 1/5.
C12_Floor ==
    \A i \in Active :
        /\ RGe(competition_threshold, <<1, 5>>) => RGe(Act(i), <<1, 5>>)
        /\ RGe(Act(i), competition_threshold) \/ RGe(Act(i), <<1, 5>>)

\* with the threshold at the floor, a unit admitted with priority exactly 1/5 is
\* active
C12_Witness ==
    /\ competition_threshold = <<1, 5>>
    /\ \E i \in Active : Act(i) = <<1, 5>>

NonIncreasing(ws, h) ==
    \A j \in 1..(Len(ws) - 1) :
        RGe(h[ws[j]].activation_level, h[ws[j + 1]].activation_level)

\* C13 as stated: after a process_cycle the active set is ordered by descending
\* activation_level.
C13_DescendingActivation ==
    ret.kind = "summary" => NonIncreasing(workspace_contents, info)

\* C13 amended: a process_cycle leaves the active set in admission order: the
\* units that were active before and survive the decay keep their relative order
\* and come first; the units admitted by this cycle follow them, in descending
\* activation_level among themselves.
C13_AdmissionOrder ==
    [][IsProcessCycle =>
        \E k \in 0..Len(workspace_contents') :
            /\ \A j \in 1..k : workspace_contents'[j] \in Range(workspace_contents)
            /\ \A a, b \in 1..k :
                   a < b => Pos(workspace_contents, workspace_contents'[a])
                              < Pos(workspace_contents, workspace_contents'[b])
            /\ \A j \in (k + 1)..Len(workspace_contents') :
                   workspace_contents'[j] \notin Range(workspace_contents)
            /\ NonIncreasing([j \in 1..(Len(workspace_contents') - k) |->
                                 workspace_contents'[k + j]], info')]_vars

\* after a process_cycle an older unit, decayed twice, stands before a unit
\* admitted later whose activation is higher
C13_Witness ==
    /\ ret.kind = "summary"
    /\ Len(workspace_contents) = 2
    /\ RLt(Act(workspace_contents[1]), Act(workspace_contents[2]))

\* C14: when a top-level call with max_depth = k has returned, the last k+1 Thoughts
\* of the consciousness stream, and the last k+1 given to Working Memory, are those
\* of levels 0..k of the returned tree, in increasing level order (with k = 0 the
\* level-0 response is recorded).
C14_RecordsEveryLevel ==
    Returned =>
        /\ Len(consciousness_stream) >= max_depth + 1
        /\ Len(wm_log) >= max_depth + 1
        /\ \A d \in 0..max_depth :
              LET t == consciousness_stream[Len(consciousness_stream) - max_depth + d]
                  w == wm_log[Len(wm_log) - max_depth + d][1]
                  n == nodes[Tree[d + 1]]
              IN /\ t.level = d /\ t.content = n.content
                 /\ w = t

\* C18: a process_cycle step taken with zero registered processors and an empty
\* competition pool returns a summary with submissions = 0, broadcasts = [] and
\* winners = 0, and leaves the competition pool and broadcast_history unchanged
\* (the call returns: process_cycle has no precondition).
C18_EmptyCycle ==
    [][(IsProcessCycle /\ processors = <<>> /\ competition_pool = <<>>) =>
          /\ ret'.kind = "summary"
          /\ ret'.summary.submissions = 0
          /\ ret'.summary.broadcasts = <<>>
          /\ ret'.summary.competition_summary.winners = 0
          /\ competition_pool' = competition_pool
          /\ broadcast_history' = broadcast_history]_vars

\* process_cycle has returned in a workspace without processors, while a
\* processor that is not registered holds a pending unit
C18_Witness ==
    /\ ret.kind = "summary"
    /\ processors = <<>>
    /\ competition_pool = <<>>
    /\ \E o \in ProcObjs : output_queue[o] # <<>>

Registered == Range(Values(processors))
\* the units pending in the outbound queues of the registered processors
PendingRegistered == UNION {Range(output_queue[o]) : o \in Registered}
IsPrefix(s, t) == Len(s) <= Len(t) /\ SubSeq(t, 1, Len(s)) = s

\* C19: a process_cycle step submits to the competition pool exactly the units
\* pending in the outbound queues of the registered processors, each once; the
\* summary's submissions is their number; every registered processor's queue is
\* empty afterwards.  Every other step only extends the outbound queues.
C19_Collection ==
    [][IF IsProcessCycle
       THEN LET new == SubSeq(submitted', Len(submitted) + 1, Len(submitted')) IN
            /\ IsPrefix(submitted, submitted')
            /\ Range(new) = PendingRegistered
            /\ Len(new) = Cardinality(PendingRegistered)
            /\ ret'.summary.submissions = Len(new)
            /\ \A o \in Registered : output_queue'[o] = <<>>
       ELSE \A o \in ProcObjs : IsPrefix(output_queue[o], output_queue'[o])]_vars

\* a process_cycle has collected one unit from each of two registered processors
C19_Witness ==
    /\ ret.kind = "summary"
    /\ ret.summary.submissions = 2
    /\ Len(processors) = 2
    /\ Len(submitted) = 2
    /\ info[submitted[1]].source # info[submitted[2]].source
    /\ \A o \in Registered : output_queue[o] = <<>>

\* the object registered under a name (0 when the name is not registered)
ObjectNamed(procs, name) ==
    IF RegisteredAt(procs, name) = {} THEN 0
    ELSE procs[CHOOSE i \in RegisteredAt(procs, name) : TRUE].obj

\* C20: registering a processor object under a name that another object holds
\* keeps the number of registered processors and the order of the names, and the
\* name now maps to the new object alone; and a process_cycle polls and delivers
\* to the registered objects only: a replaced object's outbound queue and mailbox
\* stay as they are, none of its pending units is submitted, and every registered
\* object receives the cycle's broadcasts.
C20_Replace ==
    /\ [][\A o \in ProcObjs :
            (RegisterProcessor(o) /\ ObjectNamed(processors, ProcName(o)) \notin {0, o}) =>
                /\ Len(processors') = Len(processors)
                /\ [k \in DOMAIN processors' |-> processors'[k].name] = RegisteredNames
                /\ ObjectNamed(processors', ProcName(o)) = o
                /\ Range(Values(processors')) =
                       (Registered \ {ObjectNamed(processors, ProcName(o))}) \cup {o}]_vars
    /\ [][IsProcessCycle =>
            /\ \A o \in ProcObjs \ Registered :
                  /\ output_queue'[o] = output_queue[o]
                  /\ input_buffer'[o] = input_buffer[o]
                  /\ \A k \in (Len(submitted) + 1)..Len(submitted') :
                        submitted'[k] \notin Range(output_queue[o])
            /\ \A o \in Registered : input_buffer'[o] = input_buffer[o] \o NewBids]_vars

\* object 1 was registered (it has received a broadcast) and has been replaced by
\* object 3 of the same name; a process_cycle has run and the unit pending in
\* object 1's outbound queue is still there
C20_Witness ==
    /\ ret.kind = "summary"
    /\ input_buffer[1] # <<>>
    /\ Registered = {3}
    /\ output_queue[1] # <<>>

\* the turn was abandoned by an exception of the generator
Aborted == turn.pc = "aborted" \/ (turn.pc = "meta" /\ outcome.status = "raised")
\* the reflection chain of the turn has returned
ChainDone ==
    \/ turn.pc = "meta" /\ Returned
    \/ turn.pc = "cycle"
    \/ turn.pc = "idle" /\ turn.last = "turn"
Primary == IF turn.gen[1] = "fail" THEN GenerationError ELSE ResponseText

\* C15: no turn is abandoned when the generator raises; once the reflection chain
\* of a turn has returned it reaches max_depth, the content of every level whose
\* generator call failed is the placeholder text (and the generated reflection
\* otherwise), and the turn's response is the primary response.
C15_TurnCompletes ==
    /\ ~Aborted
    /\ ChainDone =>
          LET flat == FlattenRecursiveResults(nodes, outcome.result) IN
          /\ Len(flat) = max_depth + 1
          /\ turn.response = IF turn.risk THEN Disclaimer(Primary) ELSE Primary
          /\ flat[1].content = turn.response
          /\ \A d \in 1..max_depth :
                flat[d + 1].content = IF turn.gen[d + 1] = "fail" THEN GenerationError
                                      ELSE ReflectionText

\* a turn with max_depth = 2 has completed although the generator failed at both
\* reflection calls
C15_Witness ==
    /\ turn.pc = "idle"
    /\ turn.last = "turn"
    /\ max_depth = 2
    /\ turn.gen = <<"ok", "fail", "fail">>
    /\ turn.cycles = 1

\* C16 as stated: every turn runs exactly one process_cycle, and it has run when
\* the response text is produced (and so before meta-cognition processes it).
C16_CycleBeforeResponse ==
    /\ turn.pc \in {"reflect", "meta", "cycle"} => turn.cycles = 1
    /\ (turn.pc = "idle" /\ turn.last \in {"turn", "crisis"}) => turn.cycles = 1

\* a step that is a call of process_cycle (in a turn, units are enqueued, and ret
\* set to None, before the cycle)
IsTurnCycle == ret.kind # "summary" /\ ret'.kind = "summary"

\* C16 amended: a turn answered with the crisis response runs no process_cycle;
\* every other turn runs exactly one, as its last workspace step: when the
\* response has been produced and meta-cognition has returned, and it collects
\* the two emotion units, the two language units and the max_depth + 1
\* reflections of this same turn.
C16_CycleLast ==
    /\ [](/\ turn.pc # "idle" => turn.cycles = 0
          /\ (turn.pc = "idle" /\ turn.last = "turn") => turn.cycles = 1
          /\ (turn.pc = "idle" /\ turn.last = "crisis") => turn.cycles = 0)
    /\ [][IsTurnCycle =>
            LET new == SubSeq(submitted', Len(submitted) + 1, Len(submitted'))
                flat == FlattenRecursiveResults(nodes, outcome.result)
            IN /\ turn.pc = "cycle" /\ turn'.pc = "idle"
               /\ Returned
               /\ ret'.summary.submissions = 4 + max_depth + 1
               /\ [i \in 1..4 |-> info'[new[i]].source] =
                      <<"emotion", "emotion", "language", "language">>
               /\ \A d \in 0..max_depth :
                     /\ info'[new[5 + d]].source = "metacognition"
                     /\ info'[new[5 + d]].content =
                            SubmitReflection(flat[d + 1].content, d)[1]]_vars

\* a turn has ended: its cycle collected the reflections of levels 0..2 and
\* broadcast a reflection of this turn
C16_Witness ==
    /\ turn.pc = "idle"
    /\ turn.last = "turn"
    /\ turn.count = 1
    /\ max_depth = 2
    /\ ret.kind = "summary"
    /\ ret.summary.submissions = 7
    /\ \E k \in DOMAIN ret.summary.broadcasts :
          ret.summary.broadcasts[k].source = "metacognition"

\* C17: after the 'reset' command the active set and the competition pool are
\* empty.
C17_ResetClears ==
    (turn.pc = "idle" /\ turn.last = "reset") =>
        (workspace_contents = <<>> /\ competition_pool = <<>>)

\* C21: broadcast_history only grows, and only in a competition_cycle or a
\* process_cycle step, by exactly the broadcasts of the units that step admits
\* from the pool or the queues; every other step (decay_workspace with its
\* evictions, submit_information, clear, submit_to_workspace) leaves
\* broadcast_history, the broadcasts and every mailbox as they are.
C21_HistoryFrame ==
    [][/\ IsPrefix(broadcast_history, broadcast_history')
       /\ IF IsCompetitionCycle \/ IsProcessCycle
          THEN /\ broadcast_history' = broadcast_history \o NewBids
               /\ \A k \in DOMAIN NewBids :
                     bcast'[NewBids[k]].information \notin Active
               /\ Len(NewBids) = IF IsProcessCycle
                                 THEN ret'.summary.competition_summary.winners
                                 ELSE Len(ret'.broadcasts)
          ELSE /\ broadcast_history' = broadcast_history
               /\ bcast' = bcast
               /\ input_buffer' = input_buffer]_vars

\* a unit was broadcast once and has left the active set since, in a step that
\* was not a cycle; the history holds its one broadcast
C21_Witness ==
    /\ ret.kind = "None"
    /\ Len(broadcast_history) = 1
    /\ bcast[broadcast_history[1]].information \notin Active
    /\ input_buffer[1] = broadcast_history

REq(x, y) == x[1] * y[2] = y[1] * x[2]
\* max(0.2, 1.0 - 0.2 d), case by case
WeightOfDepth(d) == IF d <= 4 THEN <<5 - d, 5>> ELSE <<1, 5>>

\* C22 as stated: every recorded Thought of depth d has attention
\* max(0.2, 1.0 - 0.2 d), and of two recorded Thoughts the deeper one has strictly
\* less attention.
C22_StrictlyLess ==
    /\ \A i \in DOMAIN wm_log : REq(wm_log[i][2], WeightOfDepth(wm_log[i][1].level))
    /\ \A i, j \in DOMAIN wm_log :
          wm_log[i][1].level < wm_log[j][1].level => RLt(wm_log[j][2], wm_log[i][2])

\* C22 amended: every recorded Thought of depth d has attention
\* max(0.2, 1.0 - 0.2 d); of two recorded Thoughts of depths d < d' the deeper has
\* no more attention than the shallower, strictly less when d < 4, and the same
\* attention 0.2 when d >= 4.
C22_Attention ==
    /\ \A i \in DOMAIN wm_log : REq(wm_log[i][2], WeightOfDepth(wm_log[i][1].level))
    /\ \A i, j \in DOMAIN wm_log :
          wm_log[i][1].level < wm_log[j][1].level =>
              /\ RLe(wm_log[j][2], wm_log[i][2])
              /\ wm_log[i][1].level < 4 => RLt(wm_log[j][2], wm_log[i][2])
              /\ wm_log[i][1].level >= 4 =>
                     (REq(wm_log[i][2], <<1, 5>>) /\ REq(wm_log[j][2], <<1, 5>>))

\* a call with max_depth = 6 has returned: the Thoughts of depths 4 and 5 were
\* recorded, both with attention 1/5
C22_Witness ==
    /\ Returned
    /\ max_depth = 6
    /\ \E i, j \in DOMAIN wm_log :
          /\ wm_log[i][1].level = 4 /\ wm_log[j][1].level = 5
          /\ wm_log[i][2] = <<1, 5>> /\ wm_log[j][2] = <<1, 5>>

\* the places where unit i is held: (processor, position) in an outbound queue,
\* position in the pool, position in the active set
Holders(outq, pool, ws, i) ==
    Cardinality({x \in ProcObjs \X (1..Len(info)) :
                    x[2] \in DOMAIN outq[x[1]] /\ outq[x[1]][x[2]] = i})
    + Cardinality({k \in DOMAIN pool : pool[k] = i})
    + Cardinality({k \in DOMAIN ws : ws[k] = i})
\* how far unit i has come: 0 outbound queue, 1 pool, 2 active set, 3 held nowhere
Stage(outq, pool, ws, i) ==
    IF \E o \in ProcObjs : i \in Range(outq[o]) THEN 0
    ELSE IF i \in Range(pool) THEN 1
    ELSE IF i \in Range(ws) THEN 2
    ELSE 3

\* C23: every unit is held at most once, by an outbound queue, the pool or the
\* active set; and no step moves a unit backwards along queue -> pool -> active
\* set -> held nowhere, so a unit that is held nowhere stays so.
C23_Ownership ==
    /\ [](\A i \in DOMAIN info :
             Holders(output_queue, competition_pool, workspace_contents, i) <= 1)
    /\ [][\A i \in DOMAIN info :
             Stage(output_queue', competition_pool', workspace_contents', i)
                >= Stage(output_queue, competition_pool, workspace_contents, i)]_vars

\* one unit has been broadcast and evicted and is held nowhere, while another is
\* in the active set
C23_Witness ==
    \E i, j \in DOMAIN info :
        /\ Stage(output_queue, competition_pool, workspace_contents, i) = 3
        /\ \E b \in DOMAIN bcast : bcast[b].information = i
        /\ Stage(output_queue, competition_pool, workspace_contents, j) = 2

(* ------------------------------- C24 ----------------------------------- *)
\* the units appended to the pool list after the comprehension of line 144 read it
LateUnits ==
    {competition_pool[k] : k \in (running.read + 1)..Len(competition_pool)}
Carries(b, u) == \E k \in DOMAIN b : b[k].information = u
Lost(u) ==
    /\ u \in Range(submitted)
    /\ u \notin Range(competition_pool)
    /\ u \notin Range(workspace_contents)
    /\ ~Carries(bcast, u)

\* C24: when a submit_information call falls between the comprehension of line 144
\* and the store of its result, the store drops the submitted unit: after it the
\* unit is neither in the competition pool nor in the active set and no broadcast
\* carries it, while the pool is exactly the list the comprehension built.
C24_LostUpdate ==
    [][running.pc = "filtered" /\ running'.pc = "none"
         => /\ competition_pool' = running.filtered
            /\ \A u \in LateUnits :
                  /\ u \in Range(submitted)
                  /\ u \notin Range(competition_pool')
                  /\ u \notin Range(workspace_contents')
                  /\ ~Carries(bcast', u)]_vars

\* no cycle is running, and a submitted unit that no winner resembles is in
\* neither list and was never broadcast
C24_Witness ==
    /\ running.pc = "none"
    /\ \E u \in Range(submitted) :
          /\ Lost(u)
          /\ \A k \in DOMAIN bcast :
                info[bcast[k].information].content # info[u].content


(* ------------------------------- C25 ----------------------------------- *)
\* C25: whatever update_from_emotion and homeostatic_decay calls were made, each
\* of the five chemical levels is at least 0 and at most 1.
C25_LevelsBounded ==
    \A c \in Chemicals :
        /\ RGe(neurochemistry.levels[c], Zero)
        /\ RLe(neurochemistry.levels[c], One)

\* after some calls one level has been clipped to 1 and another to 0
C25_Witness ==
    /\ neuro_calls >= 2
    /\ \E c \in Chemicals : neurochemistry.levels[c] = One
    /\ \E c \in Chemicals : neurochemistry.levels[c] = Zero

(* ------------------------------- C26 ----------------------------------- *)
IsActive(i) == i \in Range(workspace_contents)
DecaysOut(i) == RGt(decay_rate, Zero) /\ RLt(decay_rate, One) /\ IsActive(i)

\* C26: no step raises the activation of a unit that is in the active set before
\* and after it; and with 0 < decay_rate < 1, under repeated process_cycle or
\* decay_workspace calls, every unit in the active set is eventually out of it.
C26_Evicted ==
    /\ [][\A i \in Range(workspace_contents) \cap Range(workspace_contents') :
             RLe(info'[i].activation_level, info[i].activation_level)]_vars
    /\ \A i \in 1..MaxUnits :
          DecaysOut(i) ~> ~IsActive(i)

\* with 0 < decay_rate < 1, a unit that was admitted and has decayed at least once
\* is out of the active set while another is still in it
C26_Witness ==
    /\ RGt(decay_rate, Zero) /\ RLt(decay_rate, One)
    /\ \E i \in Broadcast : ~IsActive(i)
    /\ \E i \in Broadcast :
          /\ IsActive(i)
          /\ RLt(info[i].activation_level, GetPriority(info[i], MaxClock))

(* ------------------------------- C27 ----------------------------------- *)
\* C27: in a process_cycle step, the summary lists one broadcast per unit admitted
\* in the step, with the priority the competition computed for it (its priority
\* at the time the call started or one second later); the unit is in the active
\* set afterwards exactly if that priority times (1 - decay_rate) exceeds 0.2, and
\* its activation is then that product.
C27_DecayAfterCompetition ==
    [][IsProcessCycle =>
          /\ Len(ret'.summary.broadcasts) = Len(NewBids)
          /\ \A k \in DOMAIN NewBids :
                LET u == Admitted[k]
                    p == ret'.summary.broadcasts[k].priority
                    d == RMul(p, RSub(One, decay_rate))
                IN /\ p \in {GetPriority(info[u], clock), GetPriority(info[u], clock')}
                   /\ u \notin Range(workspace_contents)
                   /\ u \in Range(workspace_contents') <=> RGt(d, <<1, 5>>)
                   /\ u \in Range(workspace_contents')
                         => info'[u].activation_level = d]_vars

\* the last process_cycle, with decay_rate above 0, admitted two units: one is
\* active with an activation below the priority reported, the other is not active
C27_Witness ==
    /\ ret.kind = "summary"
    /\ RGt(decay_rate, Zero)
    /\ Len(ret.summary.broadcasts) = 2
    /\ \E k \in {1, 2} :
          \E u \in {bcast[Len(bcast) - 2 + k].information} :
             /\ u \in Range(workspace_contents)
             /\ RLt(info[u].activation_level, ret.summary.broadcasts[k].priority)
    /\ \E k \in {1, 2} : bcast[Len(bcast) - 2 + k].information \notin Range(workspace_contents)

(* ------------------------------- C28 ----------------------------------- *)
\* the step in which llm_generator raises, at the depth of the innermost frame
IsRaise == outcome.status = "running" /\ outcome'.status = "raised"
\* the Thought recorded for level l by the call that raises at depth d
Recorded(d, l) == consciousness_stream[Len(consciousness_stream) - d + l]
InBuffer(wm, th) == \E j \in DOMAIN wm.buffer : wm.buffer[j] = th
\* the exception reaches the caller: no frame is left, no value is returned, the
\* failing call of llm_generator was the last one, and nothing recorded is touched
Propagates ==
    /\ Top.depth < max_depth
    /\ stack' = <<>>
    /\ outcome'.result = 0
    /\ Len(llm_calls') = Len(llm_calls) + 1
    /\ llm_calls'[Len(llm_calls')].raised
    /\ UNCHANGED <<entries, nodes, working_memory, consciousness_stream>>
    /\ Len(consciousness_stream) >= Top.depth + 1
    /\ \A l \in 0..Top.depth :
          /\ Recorded(Top.depth, l).level = l
          /\ InBuffer(working_memory, Recorded(Top.depth, l)) => l > Top.depth - WMCapacity

\* C28 as stated: when llm_generator raises at depth d < max_depth the exception
\* propagates, and the Thoughts of levels 0..d are in the consciousness stream
\* and in Working Memory afterwards.
C28_AllRemain ==
    [][IsRaise =>
          /\ Propagates
          /\ \A l \in 0..Top.depth : InBuffer(working_memory', Recorded(Top.depth, l))]_vars

\* C28, amended: when llm_generator raises at depth d < max_depth the exception
\* propagates, the Thoughts of levels 0..d are in the consciousness stream
\* afterwards, and Working Memory holds the last min(d + 1, 7) of them (levels
\* max(0, d - 6)..d) as its most recent entries.
C28_PartialChainKept ==
    [][IsRaise =>
          /\ Propagates
          /\ \A l \in 0..Top.depth :
                l > Top.depth - WMCapacity
                   => working_memory'.buffer[Len(working_memory'.buffer) - Top.depth + l]
                         = Recorded(Top.depth, l)]_vars

\* a call has raised at depth 2 and the three Thoughts of levels 0..2 are in the
\* stream and in Working Memory
C28_Witness ==
    /\ outcome.status = "raised"
    /\ Len(llm_calls) = 3
    /\ Len(consciousness_stream) = 3
    /\ \A l \in 0..2 :
          /\ consciousness_stream[l + 1].level = l
          /\ InBuffer(working_memory, consciousness_stream[l + 1])

(* ------------------------------- C29 ----------------------------------- *)
IsClear == competition_pool # <<>> /\ competition_pool' = <<>> /\ bcast' = bcast
BelowThreshold(i) == RLt(GetPriority(info[i], clock), competition_threshold)

\* C29: the priority of a unit that stays pooled never rises from one state to the
\* next; and a pooled unit whose priority is below competition_threshold is, after
\* any step but clear(), still pooled with a priority below the threshold, not
\* active and never broadcast (after a competition its activation_level is below
\* the threshold too).
C29_BelowStays ==
    [][\A i \in DOMAIN info :
          /\ i \in Pooled /\ i \in Range(competition_pool')
                => RLe(GetPriority(info'[i], clock'), GetPriority(info[i], clock))
          /\ i \in Pooled /\ BelowThreshold(i) /\ ~IsClear
                => /\ i \in Range(competition_pool')
                   /\ i \notin Range(workspace_contents')
                   /\ ~Carries(bcast', i)
                   /\ RLt(GetPriority(info'[i], clock'), competition_threshold)
                   /\ IsCompetitionCycle \/ IsProcessCycle
                         => RLt(info'[i].activation_level, competition_threshold)]_vars

\* after a competition the active set has a free slot and two units are pooled,
\* both with an activation below the threshold
C29_Witness ==
    /\ ret.kind \in {"broadcasts", "summary"}
    /\ Len(workspace_contents) < capacity
    /\ Len(competition_pool) = 2
    /\ \A k \in DOMAIN competition_pool :
          /\ RLt(info[competition_pool[k]].activation_level, competition_threshold)
          /\ BelowThreshold(competition_pool[k])

(* ------------------------------- C30 ----------------------------------- *)
\* C30: under repeated process_cycle calls every pooled unit whose priority stays
\* at or above competition_threshold is eventually admitted and broadcast, a
\* candidate that lost being retried until it wins: a unit that is pooled when a
\* process_cycle starts and at or above the threshold when it ends has been
\* broadcast or is still pooled.
C30_RetriedUntilWins ==
    [][IsProcessCycle /\ capacity >= 1 /\ RGt(decay_rate, Zero) /\ RLt(decay_rate, One) =>
          \A i \in Pooled :
             RGe(GetPriority(info[i], clock'), competition_threshold)
                => i \in Range(competition_pool') \/ Carries(bcast', i)]_vars

====
